---------------------------- MODULE Spec2Model ----------------------------
(***************************************************************************)
(* Model of YandexDiskDownloader (src/YandexCLI.py): one download() job.   *)
(* The orchestrating thread resolves the link, then either streams the     *)
(* whole file (fallback) or dispatches num_threads ranged fetchers to a    *)
(* thread pool, waits for all of them, and merges the part files.          *)
(*                                                                         *)
(* The remote file is a sequence of bytes; byte k of the resource has the  *)
(* value k+1, so that any reordering, duplication or loss is visible.      *)
(* Files on disk are a pair (exists, data).                                *)
(***************************************************************************)
EXTENDS Integers, Sequences, FiniteSets, TLC

\* ------------------------------------------------------------------ bounds
MaxSize == 3
MaxThreads == 2
BufSize == 2
MaxExternal == 1

\* ----------------------------------------------------------------- helpers
Min(a, b) == IF a < b THEN a ELSE b

Workers == 0 .. (MaxThreads - 1)

\* What an earlier run may have left on disk (its bytes differ from every
\* byte of the resource).
Stale == <<0>>

RECURSIVE SumOver(_, _)
SumOver(f, S) ==
    IF S = {} THEN 0
    ELSE LET x == CHOOSE y \in S : TRUE IN f[x] + SumOver(f, S \ {x})

\* ------------------------------------------------------------ chunk planner
\* chunk_size = file_size // self.num_threads
ChunkSize(fs, n) == fs \div n

\* start_byte = i * chunk_size
StartByte(i, cs) == i * cs

EndByteNoRemainder(i, n, cs, fs) == StartByte(i, cs) + cs - 1

\* end_byte = start_byte + chunk_size - 1; the last chunk ends at file_size - 1
EndByte(i, n, cs, fs) ==
    IF i = n - 1 THEN fs - 1 ELSE StartByte(i, cs) + cs - 1

\* ------------------------------------------------------------ remote server
\* The bytes a server honouring "Range: bytes=start-end" sends (status 206).
RangeBody(res, start, end) == SubSeq(res, start + 1, Min(end, Len(res) - 1) + 1)

\* The answers a ranged GET can get.  "206": exactly the span; "200": the
\* server ignores the Range header and sends the full body; "error": a
\* transport error or an HTTP error status (raise_for_status raises).  A
\* header whose end lies before its start ("bytes=0--1") is no valid range:
\* it is ignored (200) or refused (error).
RespKinds(start, end) ==
    IF start <= end THEN {"206", "200", "error"} ELSE {"200", "error"}

Body(kind, res, start, end) ==
    IF kind = "206" THEN RangeBody(res, start, end) ELSE res

\* ------------------------------------------------------------------- state
VARIABLES
    num_threads,      \* self.num_threads
    resource,         \* the remote file's bytes
    final0,           \* what was at the final path before the job: <<exists, data>>
    stage,            \* where download() is
    failedFrom,       \* the stage the job failed in ("" while not failed)
    file_size,        \* file_size from _get_download_info
    supports_ranges,  \* accept_ranges == 'bytes'
    rerr,             \* what _get_download_info raised ("" when nothing)
    chunk_size,       \* chunk_size of download()
    tasks,            \* the submitted tasks, in order: [start, end]
    fpc,              \* each fetcher's position in _download_chunk
    frem,             \* the part of the response body not yet iterated
    fbuf,             \* len(chunk) of the buffer being processed
    freg,             \* the value of pbar.n read by an update in progress
    fret,             \* the fetcher's return value: "none", "true", "false"
    fkind,            \* the answer its request got: "none", "206", "200", "error"
    written,          \* bytes the job's fetchers have written to part files
    results,          \* the results list built from as_completed
    collected,        \* the futures as_completed has yielded
    partExists,       \* part files on disk: the set of their indexes
    partData,         \* their contents
    writers,          \* for each part file, the fetchers that opened it for writing
    finalExists,      \* the final path exists
    finalData,        \* its contents
    pbar_n,           \* pbar.n, the progress counter
    mpc,              \* position in _merge_files
    mi,               \* its loop index
    merr,             \* _merge_files raised FileNotFoundError
    cerr,             \* the cleanup pass raised
    spc,              \* position in _simple_download
    srem,             \* the part of its response body not yet iterated
    external          \* part files removed by something other than the job

vars == <<num_threads, resource, final0, stage, failedFrom, file_size,
          supports_ranges, rerr, chunk_size, tasks, fpc, frem, fbuf, freg, fret,
          fkind, written, results, collected, partExists, partData, writers,
          finalExists,
          finalData, pbar_n, mpc, mi, merr, cerr, spc, srem, external>>

jobVars == <<num_threads, resource, final0>>
resolveVars == <<file_size, supports_ranges, rerr>>
fetchVars == <<fpc, frem, fbuf, freg, fret, fkind, written>>
partVars == <<partExists, partData>>
diskVars == <<partExists, partData, writers>>
finalVars == <<finalExists, finalData>>
mergeVars == <<mpc, mi, merr, cerr>>
simpleVars == <<spc, srem>>

\* __init__ and the state of the download directory when download() is
\* called: clean, or holding the part files or the final file of an earlier run.
Init ==
    /\ num_threads \in 0 .. MaxThreads
    /\ resource \in {[k \in 1 .. n |-> k] : n \in 0 .. MaxSize}
    /\ \E stale \in {{}, Workers} :
          /\ partExists = stale
          /\ partData = [i \in Workers |-> IF i \in stale THEN Stale ELSE <<>>]
    /\ writers = [i \in Workers |-> {}]
    /\ finalExists \in BOOLEAN
    /\ finalData = IF finalExists THEN Stale ELSE <<>>
    /\ final0 = <<finalExists, finalData>>
    /\ stage = "INIT"
    /\ failedFrom = ""
    /\ file_size = 0
    /\ supports_ranges = FALSE
    /\ rerr = ""
    /\ chunk_size = 0
    /\ tasks = <<>>
    /\ fpc = [i \in Workers |-> "none"]
    /\ frem = [i \in Workers |-> <<>>]
    /\ fbuf = [i \in Workers |-> 0]
    /\ freg = [i \in Workers |-> 0]
    /\ fret = [i \in Workers |-> "none"]
    /\ fkind = [i \in Workers |-> "none"]
    /\ written = 0
    /\ results = <<>>
    /\ collected = {}
    /\ pbar_n = 0
    /\ mpc = "idle"
    /\ mi = 0
    /\ merr = FALSE
    /\ cerr = FALSE
    /\ spc = "idle"
    /\ srem = <<>>
    /\ external = 0

\* ------------------------------------------------------------- orchestrator
\* download() is called.
Start ==
    /\ stage = "INIT"
    /\ stage' = "RESOLVING"
    /\ UNCHANGED <<jobVars, failedFrom, resolveVars, chunk_size, tasks,
                   fetchVars, results, collected, diskVars, finalVars,
                   pbar_n, mergeVars, simpleVars, external>>

UseFallbackBoth(fs, sr) == fs = 0 /\ ~sr

\* if not file_size or not supports_ranges
UseFallback(fs, sr) == fs = 0 \/ ~sr

\* _get_download_info returns: content-length is the resource's length, or
\* the header is missing (0); accept-ranges is 'bytes' or not.
ResolveOk ==
    /\ stage = "RESOLVING"
    /\ \E known \in BOOLEAN, sr \in BOOLEAN :
          /\ file_size' = IF known THEN Len(resource) ELSE 0
          /\ supports_ranges' = sr
    /\ stage' = IF UseFallback(file_size', supports_ranges')
                THEN "FALLBACK_FETCHING" ELSE "PLANNING"
    /\ UNCHANGED <<jobVars, failedFrom, rerr, chunk_size, tasks, fetchVars,
                   results, collected, diskVars, finalVars, pbar_n, mergeVars,
                   simpleVars, external>>

\* What _get_download_info can raise: the API request fails (lines 26-27),
\* the answer has no "href" (KeyError, line 29), the HEAD probe fails (36-37).
ResolveErrors == {"api", "href", "head"}

OnResolveErrorFallback == "FALLBACK_FETCHING"

\* The exception leaves the try block of download(): except
\* requests.RequestException or except Exception prints, download() returns.
OnResolveError == "FAILED"

\* _get_download_info raises; nothing after line 87 runs.
ResolveFail ==
    /\ stage = "RESOLVING"
    /\ rerr' \in ResolveErrors
    /\ stage' = OnResolveError
    /\ failedFrom' = "RESOLVING"
    /\ UNCHANGED <<jobVars, file_size, supports_ranges, chunk_size, tasks, fetchVars, results,
                   collected, diskVars, finalVars, pbar_n, mergeVars, simpleVars, external>>

\* chunk_size = file_size // self.num_threads (ZeroDivisionError when
\* num_threads is 0, caught by except Exception); then the progress bar and
\* the pool are created.
Plan ==
    /\ stage = "PLANNING"
    /\ IF num_threads = 0
       THEN /\ stage' = "FAILED"
            /\ failedFrom' = "PLANNING"
            /\ UNCHANGED <<chunk_size, pbar_n>>
       ELSE /\ chunk_size' = ChunkSize(file_size, num_threads)
            /\ pbar_n' = 0
            /\ stage' = "FETCHING"
            /\ UNCHANGED failedFrom
    /\ UNCHANGED <<jobVars, resolveVars, tasks, fetchVars, results, collected,
                   diskVars, finalVars, mergeVars, simpleVars, external>>

PartPathShared(i) == 0

\* part_path = f"{save_path}.part{i}": part files are named by their index
PartPath(i) == i

\* One iteration of the dispatch loop: executor.submit(self._download_chunk, ...).
Submit ==
    /\ stage = "FETCHING"
    /\ Len(tasks) < num_threads
    /\ LET i == Len(tasks) IN
          /\ tasks' = Append(tasks,
                 [start |-> StartByte(i, chunk_size),
                  end |-> EndByte(i, num_threads, chunk_size, file_size),
                  part |-> PartPath(i)])
          /\ fpc' = [fpc EXCEPT ![i] = "queued"]
    /\ UNCHANGED <<jobVars, stage, failedFrom, resolveVars, chunk_size, frem,
                   fbuf, freg, fret, fkind, written, results, collected,
                   diskVars, finalVars, pbar_n, mergeVars, simpleVars, external>>

\* ------------------------------------------------------- _download_chunk
OpenAppend(data) == data

\* open(part_path, "wb"): the file is created empty or truncated
OpenTruncate(data) == <<>>

\* A pool thread takes the task: the ranged GET is answered without error,
\* raise_for_status passes and open(part_path, "wb") creates or truncates
\* the part file.
BeginStream(i) ==
    /\ fpc[i] = "queued"
    /\ \E kind \in RespKinds(tasks[i + 1].start, tasks[i + 1].end) \ {"error"} :
          /\ fkind' = [fkind EXCEPT ![i] = kind]
          /\ frem' = [frem EXCEPT
                 ![i] = Body(kind, resource, tasks[i + 1].start, tasks[i + 1].end)]
    /\ partExists' = partExists \cup {tasks[i + 1].part}
    /\ partData' = [partData EXCEPT ![tasks[i + 1].part] = OpenTruncate(@)]
    /\ writers' = [writers EXCEPT ![tasks[i + 1].part] = @ \cup {i}]
    /\ fpc' = [fpc EXCEPT ![i] = "streaming"]
    /\ UNCHANGED <<jobVars, stage, failedFrom, resolveVars, chunk_size, tasks,
                   fbuf, freg, fret, written, results, collected, finalVars,
                   pbar_n, mergeVars, simpleVars, external>>

\* The next buffer of iter_content (chunk_size bytes, fewer at the end);
\* file.write(chunk); then pbar.update(len(chunk)), which is self.n += n on
\* the shared bar with no lock taken by the caller or by update: here its
\* read of self.n ...
WriteChunk(i) ==
    /\ fpc[i] = "streaming"
    /\ frem[i] # <<>>
    /\ LET k == Min(BufSize, Len(frem[i])) IN
          /\ partData' = [partData EXCEPT
                 ![tasks[i + 1].part] = @ \o SubSeq(frem[i], 1, k)]
          /\ frem' = [frem EXCEPT ![i] = SubSeq(@, k + 1, Len(@))]
          /\ fbuf' = [fbuf EXCEPT ![i] = k]
          /\ written' = written + k
    /\ freg' = [freg EXCEPT ![i] = pbar_n]
    /\ fpc' = [fpc EXCEPT ![i] = "upd_store"]
    /\ UNCHANGED <<jobVars, stage, failedFrom, resolveVars, chunk_size, tasks,
                   fret, fkind, results, collected, partExists, writers,
                   finalVars, pbar_n, mergeVars, simpleVars, external>>

\* ... and here its write of self.n.
PbarStore(i) ==
    /\ fpc[i] = "upd_store"
    /\ pbar_n' = freg[i] + fbuf[i]
    /\ fbuf' = [fbuf EXCEPT ![i] = 0]
    /\ freg' = [freg EXCEPT ![i] = 0]
    /\ fpc' = [fpc EXCEPT ![i] = "streaming"]
    /\ UNCHANGED <<jobVars, stage, failedFrom, resolveVars, chunk_size, tasks,
                   frem, fret, fkind, written, results, collected, diskVars,
                   finalVars, mergeVars, simpleVars, external>>

\* The body is exhausted: the with blocks close and the fetcher returns True.
StreamEnd(i) ==
    /\ fpc[i] = "streaming"
    /\ frem[i] = <<>>
    /\ fret' = [fret EXCEPT ![i] = "true"]
    /\ fpc' = [fpc EXCEPT ![i] = "done"]
    /\ UNCHANGED <<jobVars, stage, failedFrom, resolveVars, chunk_size, tasks,
                   frem, fbuf, freg, fkind, written, results, collected,
                   diskVars, finalVars, pbar_n, mergeVars, simpleVars, external>>

FailureCleanupKeep(exists, i) == exists

\* if os.path.exists(part_path): os.remove(part_path)
FailureCleanup(exists, i) == exists \ {i}

\* requests.RequestException in the try block: the request fails or gets an
\* error status before the part file is opened, or the stream breaks while
\* the body is iterated.  The handler removes the part file and returns False.
FetchFail(i) ==
    /\ fpc[i] \in {"queued", "streaming"}
    /\ fkind' = [fkind EXCEPT ![i] = IF fpc[i] = "queued" THEN "error" ELSE @]
    /\ partExists' = FailureCleanup(partExists, tasks[i + 1].part)
    /\ partData' = [partData EXCEPT
           ![tasks[i + 1].part] = IF tasks[i + 1].part \in partExists' THEN @ ELSE <<>>]
    /\ UNCHANGED writers
    /\ frem' = [frem EXCEPT ![i] = <<>>]
    /\ fret' = [fret EXCEPT ![i] = "false"]
    /\ fpc' = [fpc EXCEPT ![i] = "done"]
    /\ UNCHANGED <<jobVars, stage, failedFrom, resolveVars, chunk_size, tasks,
                   fbuf, freg, written, results, collected, finalVars,
                   pbar_n, mergeVars, simpleVars, external>>

\* ------------------------------------------------- waiting for the fetchers
\* as_completed(tasks) yields a finished future and the comprehension
\* appends its result; it runs once the dispatch loop has ended.
Collect(i) ==
    /\ stage = "FETCHING"
    /\ Len(tasks) = num_threads
    /\ fpc[i] = "done"
    /\ i \notin collected
    /\ results' = Append(results, fret[i])
    /\ collected' = collected \cup {i}
    /\ UNCHANGED <<jobVars, stage, failedFrom, resolveVars, chunk_size, tasks,
                   fetchVars, diskVars, finalVars, pbar_n, mergeVars, simpleVars, external>>

WaitDoneFirst(res, n) == Len(res) >= 1

\* The comprehension over as_completed ends, and the executor's with block
\* exits, when every one of the submitted futures has finished.
WaitDone(res, n) == Len(res) = n

AnyOk(res) == \E k \in 1 .. Len(res) : res[k] = "true"

AllOkIgnored(res) == TRUE

\* all(results)
AllOk(res) == \A k \in 1 .. Len(res) : res[k] = "true"

PartsAfterAbortCleaned(exists, n) == exists \ (0 .. (n - 1))

\* raise ConnectionError at line 116 goes straight to except Exception at
\* line 123, which prints: no statement on the way touches the part files.
PartsAfterAbort(exists, n) == exists

\* if not all(results): raise ConnectionError (caught by except Exception);
\* otherwise self._merge_files(save_path, self.num_threads) is entered.
Judge ==
    /\ stage = "FETCHING"
    /\ Len(tasks) = num_threads
    /\ WaitDone(results, num_threads)
    /\ IF AllOk(results)
       THEN /\ stage' = "MERGING"
            /\ mpc' = "open"
            /\ UNCHANGED failedFrom
       ELSE /\ stage' = "FAILED"
            /\ failedFrom' = "FETCHING"
            /\ UNCHANGED mpc
    /\ partExists' = IF AllOk(results) THEN partExists
                     ELSE PartsAfterAbort(partExists, num_threads)
    /\ partData' = [i \in Workers |-> IF i \in partExists' THEN partData[i] ELSE <<>>]
    /\ UNCHANGED <<jobVars, resolveVars, chunk_size, tasks, fetchVars, results,
                   collected, writers, finalVars, pbar_n, mi, merr, cerr, simpleVars, external>>

\* ------------------------------------------------------------ _merge_files
\* open(final_path, "wb") creates or truncates the final file.
MergeOpen ==
    /\ stage = "MERGING"
    /\ mpc = "open"
    /\ finalExists' = TRUE
    /\ finalData' = <<>>
    /\ mi' = 0
    /\ mpc' = "concat"
    /\ UNCHANGED <<jobVars, stage, failedFrom, resolveVars, chunk_size, tasks,
                   fetchVars, results, collected, diskVars, pbar_n, merr,
                   cerr, simpleVars, external>>

AfterRaiseNoFinally == "exit"

\* finally: the cleanup pass runs when the concatenation raised.
AfterRaise == "cleanup"

\* One iteration of for i in range(num_parts): a missing part raises
\* FileNotFoundError, otherwise the part's bytes are appended.
MergeStep ==
    /\ stage = "MERGING"
    /\ mpc = "concat"
    /\ IF mi \notin partExists
       THEN /\ merr' = TRUE
            /\ mpc' = AfterRaise
            /\ UNCHANGED <<finalData, mi>>
       ELSE /\ finalData' = finalData \o partData[mi]
            /\ mi' = mi + 1
            /\ mpc' = IF mi + 1 = num_threads THEN "cleanup" ELSE "concat"
            /\ UNCHANGED merr
    /\ UNCHANGED <<jobVars, stage, failedFrom, resolveVars, chunk_size, tasks,
                   fetchVars, results, collected, diskVars, finalExists,
                   pbar_n, cerr, simpleVars, external>>

CleanupStepUnguarded(st, i) ==
    [exists |-> st.exists \ {i}, raised |-> i \notin st.exists]

\* if os.path.exists(part_path): os.remove(part_path)
\* (os.remove of a missing file would raise FileNotFoundError)
CleanupStep(st, i) ==
    IF i \in st.exists
    THEN [exists |-> st.exists \ {i}, raised |-> FALSE]
    ELSE st

\* for i in range(num_parts), from index i on, until an iteration raises
RECURSIVE CleanupLoop(_, _, _)
CleanupLoop(st, i, n) ==
    IF i >= n \/ st.raised THEN st ELSE CleanupLoop(CleanupStep(st, i), i + 1, n)

CleanupPassShort(exists, n) == exists \ (0 .. (n - 2))

\* The part files left by the cleanup pass over indexes 0 .. n-1.
CleanupPass(exists, n) ==
    CleanupLoop([exists |-> exists, raised |-> FALSE], 0, n).exists

\* Whether the cleanup pass raises.
CleanupRaises(exists, n) ==
    CleanupLoop([exists |-> exists, raised |-> FALSE], 0, n).raised

\* The finally block of _merge_files.
MergeCleanup ==
    /\ stage = "MERGING"
    /\ mpc = "cleanup"
    /\ partExists' = CleanupPass(partExists, num_threads)
    /\ partData' = [i \in Workers |-> IF i \in partExists' THEN partData[i] ELSE <<>>]
    /\ cerr' = CleanupRaises(partExists, num_threads)
    /\ UNCHANGED writers
    /\ mpc' = "exit"
    /\ UNCHANGED <<jobVars, stage, failedFrom, resolveVars, chunk_size, tasks,
                   fetchVars, results, collected, finalVars, pbar_n, mi, merr,
                   simpleVars, external>>

\* _merge_files returns and download() prints "Download complete.", or the
\* FileNotFoundError reaches except Exception in download(), which prints.
MergeExit ==
    /\ stage = "MERGING"
    /\ mpc = "exit"
    /\ mpc' = "done"
    /\ IF merr \/ cerr
       THEN stage' = "FAILED" /\ failedFrom' = "MERGING"
       ELSE stage' = "DONE" /\ UNCHANGED failedFrom
    /\ UNCHANGED <<jobVars, resolveVars, chunk_size, tasks, fetchVars, results,
                   collected, diskVars, finalVars, pbar_n, mi, merr,
                   cerr, simpleVars, external>>

\* --------------------------------------------------------- _simple_download
\* The progress bar is created, the plain GET is answered without error and
\* open(save_path, "wb") creates or truncates the final file.
SimpleBegin ==
    /\ stage = "FALLBACK_FETCHING"
    /\ spc = "idle"
    /\ pbar_n' = 0
    /\ srem' = resource
    /\ finalExists' = TRUE
    /\ finalData' = <<>>
    /\ spc' = "streaming"
    /\ UNCHANGED <<jobVars, stage, failedFrom, resolveVars, chunk_size, tasks,
                   fetchVars, results, collected, diskVars, mergeVars, external>>

\* file.write(chunk); pbar.update(len(chunk)) in the only thread of the job.
SimpleWrite ==
    /\ stage = "FALLBACK_FETCHING"
    /\ spc = "streaming"
    /\ srem # <<>>
    /\ LET k == Min(BufSize, Len(srem)) IN
          /\ finalData' = finalData \o SubSeq(srem, 1, k)
          /\ srem' = SubSeq(srem, k + 1, Len(srem))
          /\ pbar_n' = pbar_n + k
    /\ UNCHANGED <<jobVars, stage, failedFrom, resolveVars, chunk_size, tasks,
                   fetchVars, results, collected, diskVars, finalExists,
                   mergeVars, spc, external>>

\* The body is exhausted: "Download complete." and download() returns.
SimpleEnd ==
    /\ stage = "FALLBACK_FETCHING"
    /\ spc = "streaming"
    /\ srem = <<>>
    /\ spc' = "done"
    /\ stage' = "DONE"
    /\ UNCHANGED <<jobVars, failedFrom, resolveVars, chunk_size, tasks,
                   fetchVars, results, collected, diskVars, finalVars, pbar_n,
                   mergeVars, srem, external>>

\* The request fails or the stream breaks: nothing in _simple_download
\* handles it, download() catches it and prints.
SimpleFail ==
    /\ stage = "FALLBACK_FETCHING"
    /\ spc \in {"idle", "streaming"}
    /\ spc' = "done"
    /\ stage' = "FAILED"
    /\ failedFrom' = "FALLBACK_FETCHING"
    /\ UNCHANGED <<jobVars, resolveVars, chunk_size, tasks, fetchVars, results,
                   collected, diskVars, finalVars, pbar_n, mergeVars, srem,
                   external>>

\* -------------------------------------------------------------- environment
\* Something other than the job removes a finished part file before the
\* merge has read it (the case line 72 guards against).
ExternalRemove(i) ==
    /\ external < MaxExternal
    /\ stage \in {"FETCHING", "MERGING"}
    /\ mpc \in {"idle", "open", "concat"}
    /\ i \in partExists
    /\ fret[i] = "true"
    /\ partExists' = partExists \ {i}
    /\ partData' = [partData EXCEPT ![i] = <<>>]
    /\ external' = external + 1
    /\ UNCHANGED writers
    /\ UNCHANGED <<jobVars, stage, failedFrom, resolveVars, chunk_size, tasks,
                   fetchVars, results, collected, finalVars, pbar_n, mergeVars,
                   simpleVars>>

\* The cleanup pass of _merge_files (lines 79-82) invoked once more on the
\* job's part files, after the merge has left.
CleanupAgain ==
    /\ mpc = "done"
    /\ partExists' = CleanupPass(partExists, num_threads)
    /\ partData' = [i \in Workers |-> IF i \in partExists' THEN partData[i] ELSE <<>>]
    /\ cerr' = CleanupRaises(partExists, num_threads)
    /\ UNCHANGED writers
    /\ mpc' = "recleaned"
    /\ UNCHANGED <<jobVars, stage, failedFrom, resolveVars, chunk_size, tasks,
                   fetchVars, results, collected, finalVars, pbar_n, mi, merr,
                   simpleVars, external>>

\* ------------------------------------------------------------ specifications
Fetcher(i) ==
    \/ BeginStream(i)
    \/ WriteChunk(i)
    \/ PbarStore(i)
    \/ StreamEnd(i)
    \/ FetchFail(i)

Next ==
    \/ Start
    \/ ResolveOk
    \/ ResolveFail
    \/ Plan
    \/ Submit
    \/ \E i \in Workers : Fetcher(i)
    \/ \E i \in Workers : Collect(i)
    \/ Judge
    \/ MergeOpen
    \/ MergeStep
    \/ MergeCleanup
    \/ MergeExit
    \/ SimpleBegin
    \/ SimpleWrite
    \/ SimpleEnd
    \/ SimpleFail

\* The job alone.
Spec == Init /\ [][Next]_vars

NextEnv == Next \/ \E i \in Workers : ExternalRemove(i)

\* The job in a directory that something else may touch.
SpecEnv == Init /\ [][NextEnv]_vars

NextRerun == NextEnv \/ CleanupAgain

\* The steps of the orchestrating thread that wait for nothing but itself
\* or (Collect) for a fetcher that has finished.
Local ==
    \/ Start
    \/ Plan
    \/ Submit
    \/ \E i \in Workers : Collect(i)
    \/ Judge
    \/ MergeOpen
    \/ MergeStep
    \/ MergeCleanup
    \/ MergeExit

\* The steps that wait for the network: of a fetcher, of _simple_download,
\* of _get_download_info.
ChunkNet(i) == BeginStream(i) \/ WriteChunk(i) \/ StreamEnd(i) \/ FetchFail(i)
SimpleNet == SimpleBegin \/ SimpleWrite \/ SimpleEnd \/ SimpleFail
ResolveNet == ResolveOk \/ ResolveFail

ChunkNoTimeout == FALSE

\* self.session.get(url, headers=headers, stream=True, timeout=30)
ChunkHasTimeout == TRUE

\* self.session.get(url, stream=True): no timeout, requests waits forever
SimpleHasTimeout == FALSE

\* self.session.get(api_url), self.session.head(download_url, ...): no timeout
ResolveHasTimeout == FALSE

\* Threads are scheduled fairly; a wait for the network is sure to end (with
\* data, the end of the body or an exception) only where a timeout bounds it.
Fairness ==
    /\ WF_vars(Local)
    /\ \A i \in Workers : WF_vars(PbarStore(i))
    /\ \A i \in Workers : WF_vars(ChunkHasTimeout /\ ChunkNet(i))
    /\ WF_vars(SimpleHasTimeout /\ SimpleNet)
    /\ WF_vars(ResolveHasTimeout /\ ResolveNet)

\* The job alone, under fair scheduling.
SpecLive == Init /\ [][Next]_vars /\ Fairness

\* The same, with the cleanup pass run a second time after the merge.
SpecRerun == Init /\ [][NextRerun]_vars

\* ------------------------------------------------------------------ claims
Chunked == file_size > 0 /\ supports_ranges /\ num_threads >= 1

Dispatched == 0 .. (Len(tasks) - 1)

AllDispatched == Chunked /\ Len(tasks) = num_threads

ChunkLen == [i \in Dispatched |-> tasks[i + 1].end - tasks[i + 1].start + 1]

InChunk(b, i) == tasks[i + 1].start <= b /\ b <= tasks[i + 1].end

FinalUntouched == <<finalExists, finalData>> = final0

\* C1: for every size S > 0 and worker count N >= 1 the N ranges download()
\* dispatches are contiguous and exhaustive: the first starts at 0, each end
\* + 1 is the next start, the last ends at S - 1, no byte lies in two ranges
\* and the lengths sum to S.
C1_PlanContiguousExhaustive ==
    AllDispatched =>
        /\ tasks[1].start = 0
        /\ \A k \in 1 .. (Len(tasks) - 1) : tasks[k].end + 1 = tasks[k + 1].start
        /\ tasks[Len(tasks)].end = file_size - 1
        /\ \A i, j \in Dispatched :
              i # j => \A b \in 0 .. (file_size - 1) : ~(InChunk(b, i) /\ InChunk(b, j))
        /\ SumOver(ChunkLen, Dispatched) = file_size

\* A plan over a size the worker count does not divide has been dispatched.
C1_Witness ==
    AllDispatched /\ num_threads = 2 /\ file_size = 3 /\ tasks[2].end = 2

SomeFetchFailed == \E i \in Dispatched : fret[i] = "false"

\* C2: on the chunked path, once a chunk fetch has returned failure the
\* merge is never invoked, the final path is left as it was, and the job can
\* only end in FAILED, whatever the siblings returned and in whatever order
\* the fetchers completed.
C2_FailurePropagates ==
    (Chunked /\ SomeFetchFailed) =>
        /\ stage \in {"FETCHING", "FAILED"}
        /\ stage = "FAILED" => failedFrom = "FETCHING"
        /\ mpc = "idle"
        /\ FinalUntouched
        /\ (WaitDone(results, num_threads) /\ stage = "FETCHING") => ENABLED Judge

\* The job failed although a sibling of the failed chunk succeeded, and the
\* successful one was collected first.
C2_Witness ==
    /\ stage = "FAILED"
    /\ failedFrom = "FETCHING"
    /\ Len(results) = 2
    /\ results[1] = "true"
    /\ results[2] = "false"

InFlight(i) == fpc[i] \in {"queued", "streaming", "upd_store"}

Judged ==
    \/ stage \in {"MERGING", "DONE"} /\ mpc # "idle"
    \/ stage = "FAILED" /\ failedFrom \in {"FETCHING", "MERGING"}

\* C3: the orchestrator judges only after every dispatched fetcher has
\* returned: the merge is not running, and the job has not failed for a
\* chunk failure, while a fetcher is in flight; and a fetcher in flight can
\* take its next step whatever its siblings returned.
C3_JudgeAfterAllReturned ==
    /\ Judged => \A i \in 0 .. (num_threads - 1) : fpc[i] = "done"
    /\ \A i \in Workers : InFlight(i) => ENABLED Fetcher(i)

\* A fetcher has failed while a sibling is still streaming; the job waits.
C3_Witness ==
    /\ stage = "FETCHING"
    /\ \E i, j \in Dispatched :
          /\ fret[i] = "false"
          /\ fpc[j] = "streaming"
          /\ partData[j] # <<>>
          /\ frem[j] # <<>>

\* C4: for a job that reaches DONE on the chunked path the final file is
\* byte-for-byte the remote resource, for every schedule of the fetchers.
C4_RoundTrip ==
    (stage = "DONE" /\ mpc = "done") => (finalExists /\ finalData = resource)

\* C5: when the merge fails on a missing part, the partially written final
\* file is discarded: after FAILED from MERGING no file is at the final path
\* (the merge truncated whatever was there, so a file there is the partial one).
C5_FailedMergeDiscardsFinal ==
    (stage = "FAILED" /\ failedFrom = "MERGING") => ~finalExists

\* C6: once _merge_files has been entered, on every exit path (completed, or
\* aborted by a missing part) no part store 0..N-1 of the job exists.
C6_MergeAlwaysCleans ==
    (mpc \in {"exit", "done"}) => partExists \cap (0 .. (num_threads - 1)) = {}

\* The merge of two parts was aborted at index 0 (part 0 was removed, part 1
\* was still there) and has left.
C6_Witness ==
    /\ mpc = "done"
    /\ merr
    /\ num_threads = 2
    /\ mi = 0
    /\ external = 1
    /\ fret[1] = "true"

Resolved == stage \notin {"INIT", "RESOLVING"} /\ failedFrom # "RESOLVING"

\* C7: a resolver result of size 0 or no range support takes the
\* single-stream path: no chunk plan, no ranged fetcher, no part store
\* created, no merge; size > 0 with range support takes the chunked path.
C7_FallbackRouting ==
    Resolved =>
        IF file_size = 0 \/ ~supports_ranges
        THEN /\ stage \in {"FALLBACK_FETCHING", "DONE", "FAILED"}
             /\ stage = "FAILED" => failedFrom = "FALLBACK_FETCHING"
             /\ chunk_size = 0
             /\ tasks = <<>>
             /\ \A i \in Workers : fpc[i] = "none"
             /\ \A i \in partExists : partData[i] = Stale
             /\ mpc = "idle"
        ELSE /\ stage \in {"PLANNING", "FETCHING", "MERGING", "DONE", "FAILED"}
             /\ stage = "FAILED" => failedFrom \in {"PLANNING", "FETCHING", "MERGING"}
             /\ spc = "idle"

\* A job whose size is known but whose server offers no ranges has streamed
\* the whole resource in the single-stream path.
C7_Witness ==
    /\ stage = "DONE"
    /\ spc = "done"
    /\ file_size > 0
    /\ ~supports_ranges
    /\ finalData = resource

AllReturned == AllDispatched /\ \A i \in Dispatched : fpc[i] = "done"

\* C8: no increment of the shared progress counter is lost: when all
\* fetchers have returned it equals the bytes they wrote, and for a job that
\* reached DONE on the chunked path it equals the resolved size.
C8_NoLostUpdate ==
    /\ AllReturned => pbar_n = written
    /\ (stage = "DONE" /\ mpc = "done") => pbar_n = file_size

\* C9: a fetch that hits a transport or HTTP failure, before the part file
\* is opened or after any number of buffers, has returned False and its part
\* store does not exist once it has returned.
C9_FailedFetchLeavesNoPart ==
    \A i \in Dispatched :
        (fkind[i] = "error" \/ fret[i] = "false") =>
            /\ fpc[i] = "done"
            /\ fret[i] = "false"
            /\ i \notin partExists

\* The only fetch of a job broke after it had written a buffer.
C9_Witness ==
    /\ AllDispatched
    /\ num_threads = 1
    /\ fret[0] = "false"
    /\ fkind[0] = "206"
    /\ written > 0
    /\ 0 \notin partExists

\* C10: a ranged request answered 200 with the full body is a chunk
\* failure: the fetcher returns False, the job fails, nothing is merged.
C10_FullBodyIsFailure ==
    \A i \in Dispatched :
        fkind[i] = "200" =>
            /\ fret[i] # "true"
            /\ stage \in {"FETCHING", "FAILED"}

\* C11: on the single-stream path a stream that fails after bytes were
\* written leaves no truncated file: after FAILED from FALLBACK_FETCHING the
\* final path holds nothing this job wrote.
C11_FallbackFailureRemovesFile ==
    (stage = "FAILED" /\ failedFrom = "FALLBACK_FETCHING") =>
        (~finalExists \/ FinalUntouched)

\* C12: when resolution fails (API error, missing href, probe error) the job
\* is FAILED before any chunk work: no plan, no ranged or single-stream
\* request, no part file created, nothing merged, the final path unwritten.
C12_ResolveFailureStopsJob ==
    (failedFrom = "RESOLVING" \/ rerr # "") =>
        /\ stage = "FAILED"
        /\ failedFrom = "RESOLVING"
        /\ rerr \in ResolveErrors
        /\ chunk_size = 0
        /\ tasks = <<>>
        /\ \A i \in Workers : fpc[i] = "none" /\ fkind[i] = "none"
        /\ spc = "idle"
        /\ mpc = "idle"
        /\ \A i \in partExists : partData[i] = Stale
        /\ FinalUntouched
        /\ ~ENABLED Next

\* The answer of the API had no "href"; an earlier run's files are on disk.
C12_Witness ==
    /\ stage = "FAILED"
    /\ rerr = "href"
    /\ partExists = Workers
    /\ finalExists

\* C13: the cleanup pass is idempotent: run when only some of the parts
\* 0..N-1 exist it removes exactly those, leaves every other file alone and
\* raises nothing; run a second time it changes nothing on disk and raises
\* nothing.
C13_CleanupIdempotent ==
    [][/\ MergeCleanup =>
            /\ partExists' = partExists \ (0 .. (num_threads - 1))
            /\ \A i \in partExists' : partData'[i] = partData[i]
            /\ ~cerr'
       /\ CleanupAgain => (UNCHANGED <<partVars, finalVars>> /\ ~cerr')]_vars

\* The second pass has run after a merge of two parts that was aborted at
\* index 0: the first pass found part 1 only.
C13_Witness ==
    /\ mpc = "recleaned"
    /\ merr
    /\ num_threads = 2
    /\ mi = 0
    /\ external = 1
    /\ fret[1] = "true"

StageEdges ==
    {<<"INIT", "RESOLVING">>, <<"RESOLVING", "PLANNING">>,
     <<"PLANNING", "FETCHING">>, <<"FETCHING", "MERGING">>,
     <<"MERGING", "DONE">>, <<"RESOLVING", "FALLBACK_FETCHING">>,
     <<"FALLBACK_FETCHING", "DONE">>, <<"RESOLVING", "FAILED">>,
     <<"FETCHING", "FAILED">>, <<"MERGING", "FAILED">>,
     <<"FALLBACK_FETCHING", "FAILED">>}

\* C14: the stage only moves along INIT, RESOLVING, PLANNING, FETCHING,
\* MERGING, DONE or INIT, RESOLVING, FALLBACK_FETCHING, DONE; FAILED is
\* entered only from RESOLVING, FETCHING, MERGING or FALLBACK_FETCHING; DONE
\* and FAILED are terminal.
C14_StageMachine ==
    /\ [][stage' # stage => <<stage, stage'>> \in StageEdges]_vars
    /\ [](stage \in {"DONE", "FAILED"} => ~ENABLED Next)

Writing(i) == fpc[i] \in {"streaming", "upd_store"}

\* C15: each part store is written by exactly one fetcher, the one holding
\* its index, and read only by the merge: no part file is ever opened by a
\* fetcher other than its own, no two fetchers write the same part path at
\* once, and while a fetcher is in flight the final path is untouched and
\* the merge has not started.
C15_OneWriterPerPart ==
    /\ \A p \in Workers : writers[p] \subseteq {p}
    /\ \A i \in Dispatched : tasks[i + 1].part = i
    /\ \A i, j \in Dispatched :
          (i # j /\ Writing(i) /\ Writing(j)) => tasks[i + 1].part # tasks[j + 1].part
    /\ (\E i \in Workers : InFlight(i)) => (mpc = "idle" /\ FinalUntouched)

\* Two fetchers are streaming at once and each has written to its own part.
C15_Witness ==
    /\ fpc[0] = "streaming"
    /\ fpc[1] = "streaming"
    /\ partData[0] # <<>>
    /\ partData[1] # <<>>
    /\ partData[0] # partData[1]
    /\ writers[0] = {0}
    /\ writers[1] = {1}

\* C16: the step from FETCHING to FAILED for a chunk failure cleans nothing:
\* after it every chunk whose fetch succeeded has its complete part store on
\* disk and every chunk whose fetch failed has none.
C16_AbortKeepsFinishedParts ==
    (stage = "FAILED" /\ failedFrom = "FETCHING") =>
        \A i \in Dispatched :
            /\ fret[i] = "true" =>
                  /\ i \in partExists
                  /\ partData[i] =
                        Body(fkind[i], resource, tasks[i + 1].start, tasks[i + 1].end)
            /\ fret[i] = "false" => i \notin partExists

\* The job failed for chunk 1 while chunk 0 had fetched its span.
C16_Witness ==
    /\ stage = "FAILED"
    /\ failedFrom = "FETCHING"
    /\ num_threads = 2
    /\ fret[0] = "true"
    /\ fkind[0] = "206"
    /\ fret[1] = "false"
    /\ partData[0] # <<>>

EmptyChunk(i) == tasks[i + 1].end < tasks[i + 1].start

\* C17: when 0 < S < N the job still dispatches N fetches, and a zero-length
\* chunk is an empty successful transfer: its fetcher receives no byte,
\* leaves a part store of length 0, adds nothing to the progress counter and
\* returns True.
C17_EmptyChunkIsEmptySuccess ==
    (Chunked /\ file_size < num_threads) =>
        /\ stage \in {"MERGING", "DONE", "FAILED"} => Len(tasks) = num_threads
        /\ \A i \in Dispatched :
              EmptyChunk(i) =>
                  /\ frem[i] = <<>>
                  /\ fbuf[i] = 0
                  /\ (fpc[i] = "done" /\ stage = "FETCHING") =>
                        /\ fret[i] = "true"
                        /\ i \in partExists
                        /\ partData[i] = <<>>

Terminated == stage \in {"DONE", "FAILED"}

\* C18: every request of a job is bounded by a timeout, so under fair
\* scheduling every started job eventually reaches DONE or FAILED, on the
\* chunked path and on the single-stream path alike.
C18_EveryJobTerminates == (stage = "RESOLVING") ~> Terminated

\* C18, amended: every ranged chunk request is bounded by a timeout, so
\* under fair scheduling every dispatched fetcher eventually returns and a
\* job that has reached FETCHING eventually reaches DONE or FAILED.
C18_ChunkedJobTerminates ==
    (stage = "FETCHING") ~>
        (Terminated /\ \A i \in Dispatched : fpc[i] = "done")

\* A job of two chunks has ended although the request of chunk 0 got no answer.
C18_Witness ==
    /\ Terminated
    /\ num_threads = 2
    /\ fkind[0] = "error"
    /\ fpc[1] = "done"
    /\ Len(results) = 2

\* C19: on the chunked path the final path is first opened for writing only
\* after all N fetchers have returned success: in RESOLVING, PLANNING and
\* FETCHING, and after a job FAILED from there, what was at the final path
\* before the job is unchanged.
C19_FinalOpenedOnlyAfterAllSucceed ==
    /\ stage \in {"RESOLVING", "PLANNING", "FETCHING"} => FinalUntouched
    /\ (stage = "FAILED" /\ failedFrom \in {"RESOLVING", "PLANNING", "FETCHING"})
          => FinalUntouched
    /\ (spc = "idle" /\ ~FinalUntouched) =>
          /\ AllDispatched
          /\ \A i \in Dispatched : fret[i] = "true"

\* A job failed for a chunk after bytes were fetched, and the final file of
\* an earlier run is still there.
C19_Witness ==
    /\ stage = "FAILED"
    /\ failedFrom = "FETCHING"
    /\ written > 0
    /\ final0[1]
    /\ finalExists
    /\ finalData = Stale

\* The bodies the job's requests delivered, for chunks 0 .. n-1 in order.
RECURSIVE Delivered(_)
Delivered(n) ==
    IF n = 0 THEN <<>>
    ELSE Delivered(n - 1) \o
         Body(fkind[n - 1], resource, tasks[n].start, tasks[n].end)

\* C20: part stores an earlier run left behind never reach the job's output:
\* every part the merge reads was truncated and fully written by the
\* fetcher of this job that holds its index and returned success, so the
\* final file of a job that reaches DONE is what the same answers give in a
\* clean directory.
C20_StalePartsNeverMerged ==
    /\ mpc = "concat" =>
          \A i \in mi .. (num_threads - 1) :
              /\ i \in partExists
              /\ writers[i] = {i}
              /\ fret[i] = "true"
              /\ partData[i] =
                    Body(fkind[i], resource, tasks[i + 1].start, tasks[i + 1].end)
    /\ (stage = "DONE" /\ mpc = "done") => finalData = Delivered(num_threads)

\* A one-chunk job is DONE in a directory that held an earlier run's part
\* files (part 1, which the job does not use, is still there).
C20_Witness ==
    /\ stage = "DONE"
    /\ mpc = "done"
    /\ num_threads = 1
    /\ 1 \in partExists
    /\ partData[1] = Stale
    /\ finalData = resource

=============================================================================
